---- MODULE Spec2Model ----
(***************************************************************************)
(* A model of the TL binary codec runtime (src/tl/tlobject.py:             *)
(* TLObject.serialize_bytes and BinaryReader) and of the schema argument   *)
(* model (src/tl/generator/parsers/tlobject/tlarg.py: TLArg).              *)
(*                                                                         *)
(* Bytes are integers 0..255 and a byte string is a sequence of them.      *)
(* An unsigned 32-bit value does not fit the model checker's integers, so  *)
(* it is kept as its two 16-bit limbs <<low, high>>; a signed 32-bit value *)
(* is an integer; a 64-bit value is its four 16-bit limbs, lowest first.   *)
(* Text (schema type tokens) is a sequence of one-character strings.       *)
(***************************************************************************)
EXTENDS Integers, Sequences, FiniteSets, TLC

VARIABLES
  pc,        \* "input": a payload waits for serialize_bytes; "wire": a buffer
             \* exists; "reader": a BinaryReader is open over it; "arg": the
             \* behaviour is one of the argument model
  kind,      \* what the buffer was made from: "payload", "value", "raw", "none"
  payload,   \* the byte string handed to serialize_bytes
  value,     \* the value whose boxed encoding the buffer holds
  wire,      \* the buffer
  registry,  \* BinaryReader.tl_objects: the set of registered constructor IDs
  stream,    \* BinaryReader.stream
  position,  \* BinaryReader.position
  last,      \* BinaryReader._last
  res,       \* the outcome of the last reader operation
  nops,      \* how many reader operations have run
  token,     \* the arg_type text handed to TLArg.__init__
  arg,       \* the TLArg instance
  out        \* the outcome of the last TLArg method call

vars == <<pc, kind, payload, value, wire, registry, stream, position, last,
          res, nops, token, arg, out>>

readerVars == <<pc, kind, payload, value, wire, registry, stream, position,
                last, res, nops>>
argVars == <<token, arg, out>>

(***************************************************************************)
(* Bounds of the model.                                                    *)
(***************************************************************************)
\* payloads up to this length are enumerated over ByteSamples
MaxShortLen == 2
\* reader operations per behaviour
MaxOps == 2
\* nodes (atoms and vectors) of an encoded value
MaxNodes == 3

\* the byte values payloads and raw buffers are built from
ByteSamples == {0, 1, 254, 255}
\* longer payload lengths: every padding of the short branch, the 254
\* boundary, the spec's 300, and one that needs the third length byte
FilledLens == {3, 4, 5, 6, 7, 252, 253, 254, 255, 256, 257, 300, 65537}
\* how a longer payload is filled: byte i is (a * i + b) % 256
Fills == {<<0, 254>>, <<1, 0>>}
\* the payloads whose encodings are also sent truncated
CutLens == {0, 1, 2, 3, 4, 253, 254, 255, 257}

\* Python's None, where a byte string may stand
None == <<-1>>

(***************************************************************************)
(* serialize_bytes                                                         *)
(***************************************************************************)
\* bytes(n): n zero bytes
Zeros(n) == [i \in 1..n |-> 0]

\* a header that keeps only two length bytes
LongHeader_TwoBytes(n) == <<254, n % 256, (n \div 256) % 256, 0>>

\* the 4-byte header of the long branch
LongHeader(n) == <<254, n % 256, (n \div 256) % 256, (n \div 65536) % 256>>

\* data is the byte string written: a str argument is first replaced by its
\* UTF-8 bytes, and the rest of the function sees only those
serialize_bytes(data) ==
  LET n == Len(data) IN
  IF n < 254
  THEN LET p0 == (n + 1) % 4
           padding == IF p0 # 0 THEN 4 - p0 ELSE p0
       IN <<n>> \o data \o Zeros(padding)
  ELSE LET p0 == n % 4
           padding == IF p0 # 0 THEN 4 - p0 ELSE p0
       IN LongHeader(n) \o data \o Zeros(padding)

(***************************************************************************)
(* Python's buffer primitives                                              *)
(***************************************************************************)
\* struct.unpack_from: a negative offset counts from the end of the buffer
EffOffset(s, off) == IF off < 0 THEN off + Len(s) ELSE off

\* struct.unpack_from succeeds iff the size bytes at the offset exist
CanUnpack(s, off, size) ==
  /\ EffOffset(s, off) >= 0
  /\ EffOffset(s, off) + size <= Len(s)

\* the k-th (1-based) byte unpack_from reads
ByteAt(s, off, k) == s[EffOffset(s, off) + k]

\* a slice index as Python normalises it
ClampIndex(s, i) ==
  IF i < 0
  THEN (IF i + Len(s) < 0 THEN 0 ELSE i + Len(s))
  ELSE (IF i > Len(s) THEN Len(s) ELSE i)

\* s[a:b]
PySlice(s, a, b) ==
  IF ClampIndex(s, a) < ClampIndex(s, b)
  THEN SubSeq(s, ClampIndex(s, a) + 1, ClampIndex(s, b))
  ELSE <<>>

\* s[a:]
PySliceFrom(s, a) == PySlice(s, a, Len(s))

(***************************************************************************)
(* Integer conversions                                                     *)
(***************************************************************************)
\* '<I': four little-endian bytes as the limbs <<low, high>>
Unsigned32(b0, b1, b2, b3) == <<b0 + 256 * b1, b2 + 256 * b3>>

\* '<i': four little-endian bytes as a two's-complement integer
Signed32(b0, b1, b2, b3) ==
  b0 + 256 * b1 + 65536 * b2 + 16777216 * (IF b3 >= 128 THEN b3 - 256 ELSE b3)

\* '<Q' / '<q': eight little-endian bytes as four 16-bit limbs, the highest
\* one signed for '<q'
Limbs64(b, signed) ==
  << b[1] + 256 * b[2], b[3] + 256 * b[4], b[5] + 256 * b[6],
     b[7] + 256 * (IF signed /\ b[8] >= 128 THEN b[8] - 256 ELSE b[8]) >>

\* the reserved constructor IDs, as <<low, high>> limbs
\* 0x997275b5
BoolTrueId == <<30133, 39282>>
\* 0xbc799737
BoolFalseId == <<38711, 48249>>
\* 0x1cb5c415
VectorId == <<50197, 7349>>

(***************************************************************************)
(* BinaryReader.  A reader is [stream, position, last, tl_objects]; every  *)
(* method yields [r, status, value]: the reader afterwards, "ok" or the    *)
(* kind of the exception raised, and the return value or the exception's   *)
(* arguments.                                                              *)
(***************************************************************************)
Return(r, v) == [r |-> r, status |-> "ok", value |-> v]
Raise(r, kind_, args) == [r |-> r, status |-> kind_, value |-> args]

\* what struct.error reports: the size asked for and the bytes the buffer has
\* from the offset on
StructError(r, size) ==
  Raise(r, "struct.error",
        [need |-> size, offset |-> r.position, buffer |-> Len(r.stream)])

Advance(r, n) == [r EXCEPT !.position = @ + n]

read_byte(r) ==
  IF CanUnpack(r.stream, r.position, 1)
  THEN Return(Advance(r, 1), ByteAt(r.stream, r.position, 1))
  ELSE StructError(r, 1)

read_int(r, signed) ==
  IF CanUnpack(r.stream, r.position, 4)
  THEN LET b0 == ByteAt(r.stream, r.position, 1)
           b1 == ByteAt(r.stream, r.position, 2)
           b2 == ByteAt(r.stream, r.position, 3)
           b3 == ByteAt(r.stream, r.position, 4)
       IN Return(Advance(r, 4),
                 IF signed THEN Signed32(b0, b1, b2, b3)
                           ELSE Unsigned32(b0, b1, b2, b3))
  ELSE StructError(r, 4)

read_long(r, signed) ==
  IF CanUnpack(r.stream, r.position, 8)
  THEN Return(Advance(r, 8),
              Limbs64([k \in 1..8 |-> ByteAt(r.stream, r.position, k)], signed))
  ELSE StructError(r, 8)

\* '<d': eight little-endian bytes as the fields of an IEEE-754 double: the
\* sign bit, the 11-bit biased exponent and the 52-bit fraction as limbs of
\* 16, 16, 16 and 4 bits, lowest first
Double64(b) ==
  [sign |-> b[8] \div 128,
   exponent |-> (b[8] % 128) * 16 + b[7] \div 16,
   fraction |-> << b[1] + 256 * b[2], b[3] + 256 * b[4], b[5] + 256 * b[6],
                   b[7] % 16 >>]

read_double(r) ==
  IF CanUnpack(r.stream, r.position, 8)
  THEN Return(Advance(r, 8),
              Double64([k \in 1..8 |-> ByteAt(r.stream, r.position, k)]))
  ELSE StructError(r, 8)

read(r, length) ==
  LET result == IF length >= 0
                THEN PySlice(r.stream, r.position, r.position + length)
                ELSE PySliceFrom(r.stream, r.position)
      r1 == Advance(r, IF length >= 0 THEN length ELSE Len(result))
  IN IF length >= 0 /\ Len(result) # length
     THEN Raise(r1, "BufferError",
                [need |-> length, got |-> Len(result), chunk |-> result,
                 last |-> r.last])
     ELSE Return([r1 EXCEPT !.last = result], result)

seek(r, offset) == Return(Advance(r, offset), None)

\* the length the three bytes after 0xFE spell
LongLength(b1, b2, b3) == b1 + 256 * b2 + 65536 * b3

\* the short branch padded as the long one is, the length byte not counted
ShortPadding_NoLengthByte(length) == length % 4

\* the long branch padded as the short one is, a length byte counted
LongPadding_CountsLengthByte(length) == (length + 1) % 4

\* the padding counters of the two branches, before "4 - padding"
LongPadding(length) == length % 4
ShortPadding(length) == (length + 1) % 4

tgread_bytes(r) ==
  LET fb == read_byte(r) IN
  IF fb.status # "ok" THEN fb ELSE
  LET hd == IF fb.value = 254
            THEN LET c1 == read_byte(fb.r) IN
                 IF c1.status # "ok" THEN c1 ELSE
                 LET c2 == read_byte(c1.r) IN
                 IF c2.status # "ok" THEN c2 ELSE
                 LET c3 == read_byte(c2.r) IN
                 IF c3.status # "ok" THEN c3 ELSE
                 LET length == LongLength(c1.value, c2.value, c3.value)
                 IN Return(c3.r, [length |-> length,
                                  padding |-> LongPadding(length)])
            ELSE Return(fb.r, [length |-> fb.value,
                               padding |-> ShortPadding(fb.value)])
  IN
  IF hd.status # "ok" THEN hd ELSE
  LET data == read(hd.r, hd.value.length) IN
  IF data.status # "ok" THEN data ELSE
  IF hd.value.padding > 0
  THEN LET pad == read(data.r, 4 - hd.value.padding) IN
       IF pad.status # "ok" THEN pad ELSE Return(pad.r, data.value)
  ELSE data

(***************************************************************************)
(* str(data, encoding='utf-8', errors='replace'): the code points of data, *)
(* U+FFFD standing for every maximal ill-formed run of bytes.              *)
(***************************************************************************)
Replacement == 65533

IsContinuation(c) == c \in 128..191

\* what the byte after lead byte c may be
SecondByteRange(c) ==
  IF c = 224 THEN 160..191
  ELSE IF c = 237 THEN 128..159
  ELSE IF c = 240 THEN 144..191
  ELSE IF c = 244 THEN 128..143
  ELSE 128..191

\* the bytes a sequence led by c has: 0 when c cannot lead one
SequenceLen(c) ==
  IF c < 128 THEN 1
  ELSE IF c \in 194..223 THEN 2
  ELSE IF c \in 224..239 THEN 3
  ELSE IF c \in 240..244 THEN 4
  ELSE 0

\* how many bytes from s[i] on form the start of a well-formed sequence
ValidPrefix(s, i) ==
  LET n == SequenceLen(s[i])
      Ok(k) == /\ i + k - 1 <= Len(s)
               /\ IF k = 2 THEN s[i + 1] \in SecondByteRange(s[i])
                            ELSE IsContinuation(s[i + k - 1])
  IN IF n <= 1 THEN n
     ELSE IF ~ Ok(2) THEN 1
     ELSE IF n = 2 \/ ~ Ok(3) THEN 2
     ELSE IF n = 3 \/ ~ Ok(4) THEN 3
     ELSE 4

\* the bytes the decoder consumes in one step at s[i]
UnitLen(s, i) == IF ValidPrefix(s, i) = 0 THEN 1 ELSE ValidPrefix(s, i)

\* the code point of the step at s[i]
UnitCodePoint(s, i) ==
  LET n == SequenceLen(s[i]) IN
  IF n = 0 \/ ValidPrefix(s, i) < n THEN Replacement
  ELSE IF n = 1 THEN s[i]
  ELSE IF n = 2 THEN (s[i] - 192) * 64 + (s[i + 1] - 128)
  ELSE IF n = 3 THEN (s[i] - 224) * 4096 + (s[i + 1] - 128) * 64
                     + (s[i + 2] - 128)
  ELSE (s[i] - 240) * 262144 + (s[i + 1] - 128) * 4096
       + (s[i + 2] - 128) * 64 + (s[i + 3] - 128)

\* a step of the decoder begins at s[i]: every byte a step takes after its
\* first is a continuation byte, so a byte that is none begins one, and a
\* continuation byte does unless the nearest earlier byte that is none
\* leads a sequence reaching it
StepStartsAt(s, i) ==
  \/ ~ IsContinuation(s[i])
  \/ \A d \in 1..3 :
       \/ i - d < 1
       \/ IsContinuation(s[i - d])
       \/ \E e \in 1..(d - 1) : ~ IsContinuation(s[i - e])
       \/ UnitLen(s, i - d) <= d

DecodeUtf8(data) ==
  LET NoStep == -1
      steps == [i \in 1..Len(data) |->
                  IF StepStartsAt(data, i) THEN UnitCodePoint(data, i)
                                           ELSE NoStep]
      IsStep(c) == c # NoStep
  IN SelectSeq(steps, IsStep)

tgread_string(r) ==
  LET data == tgread_bytes(r) IN
  IF data.status # "ok" THEN data
  ELSE Return(data.r, DecodeUtf8(data.value))

tgread_bool(r) ==
  LET v == read_int(r, FALSE) IN
  IF v.status # "ok" THEN v
  ELSE IF v.value = BoolTrueId THEN Return(v.r, TRUE)
  ELSE IF v.value = BoolFalseId THEN Return(v.r, FALSE)
  ELSE Raise(v.r, "RuntimeError", v.value)

(***************************************************************************)
(* Decoded values: True / False, a list, or an instance of a registered    *)
(* class.                                                                  *)
(***************************************************************************)
BoolV(b) == [bool |-> b]
VecV(s) == [vec |-> s]
ObjV(id, f) == [obj |-> id, field |-> f]

\* A registered (generated) class: one int field, read after the ID.
FromReader(r, id) ==
  LET f == read_int(r, TRUE) IN
  IF f.status # "ok" THEN f ELSE Return(f.r, ObjV(id, f.value))

RECURSIVE tgread_object(_)
RECURSIVE ReadElements(_, _, _)

\* a comprehension that puts each element in front of the ones before it
ReadElements_Reversed(r, n, acc) ==
  IF n <= 0 THEN Return(r, VecV(acc))
  ELSE LET e == tgread_object(r) IN
       IF e.status # "ok" THEN e
       ELSE ReadElements(e.r, n - 1, <<e.value>> \o acc)

\* [self.tgread_object() for _ in range(n)], acc the elements read so far
ReadElements(r, n, acc) ==
  IF n <= 0 THEN Return(r, VecV(acc))
  ELSE LET e == tgread_object(r) IN
       IF e.status # "ok" THEN e
       ELSE ReadElements(e.r, n - 1, Append(acc, e.value))

\* the rewind without the position saved and restored around read()
UnknownConstructor_NoRestore(r, id) ==
  LET back == seek(r, -4).r
      rest == read(back, -1)
  IN Raise(rest.r, "Exception", [id |-> id, rest |-> rest.value])

\* a rewind of eight bytes where four were read
UnknownConstructor_RewindTwice(r, id) ==
  LET back == seek(r, -8).r
      rest == read(back, -1)
  IN Raise([rest.r EXCEPT !.position = back.position], "Exception",
           [id |-> id, rest |-> rest.value])

\* self.seek(-4); pos = self.position; error = Exception(id, self.read());
\* self.position = pos; raise error
UnknownConstructor(r, id) ==
  LET back == seek(r, -4).r
      rest == read(back, -1)
  IN Raise([rest.r EXCEPT !.position = back.position], "Exception",
           [id |-> id, rest |-> rest.value])

tgread_object(r) ==
  LET c == read_int(r, FALSE) IN
  IF c.status # "ok" THEN c
  ELSE IF c.value \in r.tl_objects THEN FromReader(c.r, c.value)
  ELSE IF c.value = BoolTrueId THEN Return(c.r, BoolV(TRUE))
  ELSE IF c.value = BoolFalseId THEN Return(c.r, BoolV(FALSE))
  ELSE IF c.value = VectorId
       THEN LET n == read_int(c.r, TRUE) IN
            IF n.status # "ok" THEN n ELSE ReadElements(n.r, n.value, <<>>)
  ELSE UnknownConstructor(c.r, c.value)

(***************************************************************************)
(* The wire layout of boxed values, as the generated to_bytes writes it:   *)
(* [4-byte ID] for a boolean, [vector tag][4-byte count][elements] for a   *)
(* boxed vector, [4-byte ID][int field] for the registered class.          *)
(***************************************************************************)
IdBytes(id) == <<id[1] % 256, id[1] \div 256, id[2] % 256, id[2] \div 256>>

Int32Bytes(n) ==
  <<n % 256, (n \div 256) % 256, (n \div 65536) % 256, (n \div 16777216) % 256>>

RECURSIVE Enc(_)
RECURSIVE EncAll(_)

EncAll(vs) == IF vs = <<>> THEN <<>> ELSE Enc(Head(vs)) \o EncAll(Tail(vs))

Enc(v) ==
  IF "bool" \in DOMAIN v
  THEN IdBytes(IF v.bool THEN BoolTrueId ELSE BoolFalseId)
  ELSE IF "vec" \in DOMAIN v
  THEN IdBytes(VectorId) \o Int32Bytes(Len(v.vec)) \o EncAll(v.vec)
  ELSE IdBytes(v.obj) \o Int32Bytes(v.field)

(***************************************************************************)
(* The inputs the behaviours start from.                                   *)
(***************************************************************************)
\* 0x12345678: the ID the registry maps to the generated class
ObjId == <<22136, 4660>>
\* 0xdeadbeef: an ID that is in no registry
UnknownId == <<48879, 57005>>
\* the int field values an encoded object carries
FieldSamples == {-259}

Registries == {{}, {ObjId}, {ObjId, VectorId}}

NoValue == [none |-> TRUE]

SeqsUpTo(S, n) == UNION {[1..k -> S] : k \in 0..n}

Filled(n, f) == [i \in 1..n |-> (f[1] * i + f[2]) % 256]

Payloads ==
  SeqsUpTo(ByteSamples, MaxShortLen) \cup {Filled(n, f) : n \in FilledLens, f \in Fills}

Atoms == {BoolV(TRUE), BoolV(FALSE)} \cup {ObjV(ObjId, f) : f \in FieldSamples}

RECURSIVE ValuesOfSize(_)
RECURSIVE ForestsOfSize(_)

\* the sequences of values with k nodes in all
ForestsOfSize(k) ==
  IF k = 0 THEN {<<>>}
  ELSE UNION {{<<v>> \o f : v \in ValuesOfSize(j), f \in ForestsOfSize(k - j)}
              : j \in 1..k}

\* the values with exactly k nodes
ValuesOfSize(k) ==
  IF k = 1 THEN Atoms \cup {VecV(<<>>)}
  ELSE {VecV(f) : f \in ForestsOfSize(k - 1)}

Values == UNION {ValuesOfSize(k) : k \in 1..MaxNodes}

\* the proper prefixes of w that drop one to four trailing bytes, and its
\* first bytes
Cuts(w) ==
  {SubSeq(w, 1, k) : k \in {j \in (Len(w) - 4)..(Len(w) - 1) : j >= 0}}
  \cup {SubSeq(w, 1, k) : k \in {j \in 1..5 : j < Len(w)}}

\* buffers as a peer may send them: truncated encodings, IDs no registry
\* knows, words that are no boolean
RawStreams ==
  UNION {Cuts(serialize_bytes(Filled(n, <<1, 0>>))) : n \in CutLens}
  \cup UNION {Cuts(Enc(v)) : v \in Values}
  \cup {IdBytes(UnknownId) \o t : t \in SeqsUpTo(ByteSamples, MaxShortLen)}
  \cup {IdBytes(VectorId) \o Int32Bytes(n) \o IdBytes(UnknownId) \o IdBytes(BoolTrueId)
        : n \in {-1, 1, 2}}
  \cup {IdBytes(VectorId) \o Int32Bytes(2) \o IdBytes(BoolFalseId) \o IdBytes(UnknownId)}

NoRes == [op |-> "none", status |-> "none", value |-> None, before |-> 0,
          param |-> 0]
NoArg == [none |-> TRUE]
NoOut == [op |-> "none"]

ArgIdle == token = <<>> /\ arg = NoArg /\ out = NoOut

ReaderStart(k, p, v) ==
  /\ pc = "input" /\ kind = k /\ payload = p /\ value = v
  /\ wire = <<>> /\ stream = <<>> /\ position = 0 /\ last = None
  /\ res = NoRes /\ nops = 0

Init ==
  /\ ArgIdle
  /\ \/ \E d \in Payloads : ReaderStart("payload", d, NoValue) /\ registry = {}
     \/ \E v \in Values, reg \in Registries :
          ReaderStart("value", <<>>, v) /\ registry = reg
     \/ \E w \in RawStreams, reg \in {{}, {ObjId}} :
          /\ pc = "wire" /\ kind = "raw" /\ payload = <<>> /\ value = NoValue
          /\ wire = w /\ registry = reg /\ stream = <<>> /\ position = 0
          /\ last = None /\ res = NoRes /\ nops = 0

(***************************************************************************)
(* Actions                                                                 *)
(***************************************************************************)
\* TLObject.serialize_bytes(payload)
SerializeBytes ==
  /\ pc = "input" /\ kind = "payload"
  /\ wire' = serialize_bytes(payload)
  /\ pc' = "wire"
  /\ UNCHANGED <<kind, payload, value, registry, stream, position, last, res,
                 nops, argVars>>

\* the generated to_bytes of a boxed value
ToBytes ==
  /\ pc = "input" /\ kind = "value"
  /\ wire' = Enc(value)
  /\ pc' = "wire"
  /\ UNCHANGED <<kind, payload, value, registry, stream, position, last, res,
                 nops, argVars>>

\* BinaryReader(wire, registry)
NewReader ==
  /\ pc = "wire"
  /\ stream' = wire
  /\ position' = 0
  /\ last' = None
  /\ pc' = "reader"
  /\ UNCHANGED <<kind, payload, value, wire, registry, res, nops, argVars>>

\* the reader as the methods see it
Self == [stream |-> stream, position |-> position, last |-> last,
         tl_objects |-> registry]

\* a method call on the reader: its effect on the reader's fields, and its
\* outcome
Call(op, param, x) ==
  /\ pc = "reader"
  /\ nops < MaxOps
  /\ stream' = x.r.stream
  /\ position' = x.r.position
  /\ last' = x.r.last
  /\ res' = [op |-> op, status |-> x.status, value |-> x.value,
             before |-> position, param |-> param]
  /\ nops' = nops + 1
  /\ UNCHANGED <<pc, kind, payload, value, wire, registry, argVars>>

ReadLengths == {-1, 0, 1, 4}
SeekOffsets == {-4, -1, 1}

ReadByte == Call("read_byte", 0, read_byte(Self))
ReadInt == \E signed \in BOOLEAN : Call("read_int", signed, read_int(Self, signed))
ReadLong == \E signed \in BOOLEAN : Call("read_long", signed, read_long(Self, signed))
Read == \E length \in ReadLengths : Call("read", length, read(Self, length))
TgreadBytes == Call("tgread_bytes", 0, tgread_bytes(Self))
TgreadBool == Call("tgread_bool", 0, tgread_bool(Self))
ReadDouble == Call("read_double", 0, read_double(Self))
TgreadString == Call("tgread_string", 0, tgread_string(Self))
TgreadObject == Call("tgread_object", 0, tgread_object(Self))
Seek == \E offset \in SeekOffsets : Call("seek", offset, seek(Self, offset))

Next ==
  \/ SerializeBytes
  \/ ToBytes
  \/ NewReader
  \/ ReadByte
  \/ ReadInt
  \/ ReadLong
  \/ Read
  \/ TgreadBytes
  \/ TgreadBool
  \/ ReadDouble
  \/ TgreadString
  \/ TgreadObject
  \/ Seek

Spec == Init /\ [][Next]_vars

(***************************************************************************)
(* TLArg.  Text is a sequence of one-character strings.                    *)
(***************************************************************************)
Lower ==
  {"a", "b", "c", "d", "e", "f", "g", "h", "i", "j", "k", "l", "m", "n",
   "o", "p", "q", "r", "s", "t", "u", "v", "w", "x", "y", "z"}
Upper ==
  {"A", "B", "C", "D", "E", "F", "G", "H", "I", "J", "K", "L", "M", "N",
   "O", "P", "Q", "R", "S", "T", "U", "V", "W", "X", "Y", "Z"}
Digits == {"0", "1", "2", "3", "4", "5", "6", "7", "8", "9"}
\* \w and \d, on ASCII text
WordChars == Lower \cup Upper \cup Digits \cup {"_"}
\* [\w<>.]
TypeChars == WordChars \cup {"<", ">", "."}
\* [\w\d.]
InnerChars == WordChars \cup {"."}

\* Python's None, where text may stand
NoText == <<"">>
\* an attribute __init__ has not set
Unset == "unset"

DigitSeq == <<"0", "1", "2", "3", "4", "5", "6", "7", "8", "9">>
DigitVal(c) == CHOOSE d \in 0..9 : DigitSeq[d + 1] = c

RECURSIVE ParseInt(_)
\* int(text) of decimal digits
ParseInt(ds) ==
  IF Len(ds) = 0 THEN 0
  ELSE 10 * ParseInt(SubSeq(ds, 1, Len(ds) - 1)) + DigitVal(ds[Len(ds)])

RECURSIVE FormatInt(_)
\* '{}'.format(n)
FormatInt(n) ==
  IF n < 0 THEN <<"-">> \o FormatInt(0 - n)
  ELSE IF n < 10 THEN <<DigitSeq[n + 1]>>
  ELSE FormatInt(n \div 10) \o <<DigitSeq[(n % 10) + 1]>>

RECURSIVE LStrip(_, _)
\* text.lstrip(c)
LStrip(t, c) == IF Len(t) > 0 /\ t[1] = c THEN LStrip(Tail(t), c) ELSE t

RECURSIVE RunEnd(_, _, _)
\* where the longest run of characters of C that starts at index i ends
\* (i - 1 when there is none)
RunEnd(t, i, C) ==
  IF i <= Len(t) /\ t[i] \in C THEN RunEnd(t, i + 1, C) ELSE i - 1

SetMax(S) == CHOOSE x \in S : \A y \in S : y <= x

NoMatch == [matched |-> FALSE]

\* re.match(r'(\w+).(\d+)\?([\w<>.]+)', t): the ends i of group 1 for which
\* the rest matches; the greedy group takes the longest
FlagNameEnds(t) ==
  {i \in 1..Len(t) :
     /\ \A j \in 1..i : t[j] \in WordChars
     /\ i + 1 <= Len(t) /\ t[i + 1] # "\n"
     /\ LET k == RunEnd(t, i + 2, Digits)
        IN /\ k >= i + 2
           /\ k + 2 <= Len(t)
           /\ t[k + 1] = "?"
           /\ t[k + 2] \in TypeChars}

FlagMatch(t) ==
  IF FlagNameEnds(t) = {} THEN NoMatch
  ELSE LET i == SetMax(FlagNameEnds(t))
           k == RunEnd(t, i + 2, Digits)
       IN [matched |-> TRUE,
           group1 |-> SubSeq(t, 1, i),
           group2 |-> SubSeq(t, i + 2, k),
           group3 |-> SubSeq(t, k + 2, RunEnd(t, k + 2, TypeChars))]

\* re.match(r'[Vv]ector<([\w\d.]+)>', t)
VectorMatch(t) ==
  IF /\ Len(t) >= 9
     /\ t[1] \in {"V", "v"}
     /\ SubSeq(t, 2, 7) = <<"e", "c", "t", "o", "r", "<">>
     /\ RunEnd(t, 8, InnerChars) >= 8
     /\ RunEnd(t, 8, InnerChars) + 1 <= Len(t)
     /\ t[RunEnd(t, 8, InnerChars) + 1] = ">"
  THEN [matched |-> TRUE, group1 |-> SubSeq(t, 8, RunEnd(t, 8, InnerChars))]
  ELSE NoMatch

RECURSIVE LastSegment(_)
\* t.split('.')[-1]
LastSegment(t) ==
  IF \E i \in 1..Len(t) : t[i] = "."
  THEN LastSegment(Tail(t))
  ELSE t

\* the name __init__ keeps
ArgName(name) ==
  IF name = "self" THEN "is_self"
  ELSE IF name = "from" THEN "from_"
  ELSE name

\* TLArg(name, arg_type, generic_definition): [status, self]
TLArgInit(name, arg_type, generic_definition) ==
  IF arg_type = <<"#">>
  THEN [status |-> "ok",
        self |-> [name |-> ArgName(name), is_vector |-> FALSE, flag |-> NoText,
                  skip_constructor_id |-> FALSE, flag_index |-> -1,
                  flag_indicator |-> TRUE, type |-> <<"i", "n", "t">>,
                  is_generic |-> FALSE, use_vector_id |-> Unset,
                  generic_definition |-> generic_definition]]
  ELSE
    LET is_generic == Len(arg_type) > 0 /\ arg_type[1] = "!"
        type0 == LStrip(arg_type, "!")
        flag_match == FlagMatch(type0)
        type1 == IF flag_match.matched THEN flag_match.group3 ELSE type0
        vector_match == VectorMatch(type1)
        type2 == IF vector_match.matched THEN vector_match.group1 ELSE type1
    IN IF Len(LastSegment(type2)) = 0
       THEN [status |-> "IndexError", self |-> [none |-> TRUE]]
       ELSE [status |-> "ok",
             self |-> [name |-> ArgName(name),
                       is_vector |-> vector_match.matched,
                       flag |-> IF flag_match.matched THEN flag_match.group1
                                ELSE NoText,
                       skip_constructor_id |-> LastSegment(type2)[1] \in Lower,
                       flag_index |-> IF flag_match.matched
                                      THEN ParseInt(flag_match.group2) ELSE -1,
                       flag_indicator |-> FALSE,
                       type |-> type2,
                       is_generic |-> is_generic,
                       use_vector_id |-> IF vector_match.matched
                                         THEN type1[1] = "V" ELSE Unset,
                       generic_definition |-> generic_definition]]

\* "if self.flag": None and '' are false
Truthy(text) == text # NoText /\ Len(text) > 0

\* a default_value that looks at is_vector before the flag
default_value_VectorFirst(self) ==
  IF self.is_vector THEN "[]"
  ELSE IF Truthy(self.flag) THEN "None"
  ELSE IF self.type = <<"i", "n", "t">> THEN "0"
  ELSE "None"

\* the source text default_value returns
default_value(self) ==
  IF Truthy(self.flag) THEN "None"
  ELSE IF self.is_vector THEN "[]"
  ELSE IF self.type \in {<<"i", "n", "t">>, <<"l", "o", "n", "g">>,
                         <<"i", "n", "t", "6", "4">>, <<"i", "n", "t", "3", "2">>,
                         <<"i", "n", "t", "5", "3">>} THEN "0"
  ELSE IF self.type \in {<<"b", "y", "t", "e", "s">>,
                         <<"i", "n", "t", "1", "2", "8">>,
                         <<"i", "n", "t", "2", "5", "6">>} THEN "b''"
  ELSE IF self.type = <<"s", "t", "r", "i", "n", "g">> THEN "''"
  ELSE IF self.type = <<"d", "o", "u", "b", "l", "e">> THEN "0.0"
  ELSE IF self.type = <<"B", "o", "o", "l">> THEN "False"
  ELSE IF self.type = <<"t", "r", "u", "e">> THEN "True"
  ELSE "None"

\* the wrappers real_type applies
VectorText(inner, boxed) ==
  <<(IF boxed THEN "V" ELSE "v"), "e", "c", "t", "o", "r", "<">> \o inner \o <<">">>
GenericText(inner) == <<"!">> \o inner
FlagText(flag, index, inner) ==
  flag \o <<".">> \o FormatInt(index) \o <<"?">> \o inner

real_type(self) ==
  LET t0 == IF self.flag_indicator THEN <<"#">> ELSE self.type
      t1 == IF self.is_vector THEN VectorText(t0, self.use_vector_id) ELSE t0
      t2 == IF self.is_generic THEN GenericText(t1) ELSE t1
  IN IF Truthy(self.flag) THEN FlagText(self.flag, self.flag_index, t2) ELSE t2

(***************************************************************************)
(* The type tokens the argument model is given: '#', or a plain type       *)
(* under up to MaxWraps wrappers of different kinds, in any order.         *)
(***************************************************************************)
\* wrappers around the plain type of a token
MaxWraps == 2

PlainTypes ==
  { <<"i", "n", "t">>,
    <<"l", "o", "n", "g">>,
    <<"i", "n", "t", "6", "4">>,
    <<"i", "n", "t", "3", "2">>,
    <<"i", "n", "t", "5", "3">>,
    <<"b", "y", "t", "e", "s">>,
    <<"i", "n", "t", "1", "2", "8">>,
    <<"i", "n", "t", "2", "5", "6">>,
    <<"s", "t", "r", "i", "n", "g">>,
    <<"d", "o", "u", "b", "l", "e">>,
    <<"B", "o", "o", "l">>,
    <<"t", "r", "u", "e">>,
    <<"b", "o", "o", "l">>,
    <<"X">>,
    <<"n", "s", ".", "O", "b", "j">>,
    <<"a", "d", "n", "l", ".", "i", "d", ".", "s", "h", "o", "r", "t">> }

FlagPrefixes == { <<"f", "l", "a", "g", "s", ".", "0", "?">>,
                  <<"f", "l", "a", "g", "s", ".", "3", "1", "?">>,
                  <<"f", "l", "a", "g", "s", ".", "3", "2", "?">> }

WrapKinds == {"generic", "flag", "vector"}

\* the tokens of S under one more wrapper of the given kind
Wrapped(wrapper, S) ==
  CASE wrapper = "generic" -> {GenericText(t) : t \in S}
    [] wrapper = "flag" -> {p \o t : p \in FlagPrefixes, t \in S}
    [] wrapper = "vector" -> {VectorText(t, b) : t \in S, b \in BOOLEAN}

RECURSIVE TokensUsing(_)
\* the plain types under one wrapper of each kind of K, in every order
TokensUsing(K) ==
  IF K = {} THEN PlainTypes
  ELSE UNION {Wrapped(k, TokensUsing(K \ {k})) : k \in K}

Tokens ==
  {<<"#">>}
  \cup UNION {TokensUsing(K) : K \in {J \in SUBSET WrapKinds : Cardinality(J) <= MaxWraps}}

Names == {"self", "from", "flags"}

ReaderIdle ==
  /\ kind = "none" /\ payload = <<>> /\ value = NoValue /\ wire = <<>>
  /\ registry = {} /\ stream = <<>> /\ position = 0 /\ last = None
  /\ res = NoRes /\ nops = 0

ArgInit ==
  /\ pc = "arg"
  /\ ReaderIdle
  /\ token \in Tokens
  /\ arg = NoArg
  /\ out = NoOut

\* TLArg(name, token, generic_definition)
Construct ==
  /\ pc = "arg" /\ out.op = "none"
  /\ \E name \in Names, generic_definition \in BOOLEAN :
       LET made == TLArgInit(name, token, generic_definition)
       IN /\ arg' = (IF made.status = "ok" THEN made.self ELSE NoArg)
          /\ out' = [op |-> "__init__", status |-> made.status]
  /\ UNCHANGED <<readerVars, token>>

\* arg.real_type()
RealType ==
  /\ pc = "arg" /\ arg # NoArg
  /\ out' = [op |-> "real_type", status |-> "ok", value |-> real_type(arg)]
  /\ UNCHANGED <<readerVars, token, arg>>

\* arg.default_value()
DefaultValue ==
  /\ pc = "arg" /\ arg # NoArg
  /\ out' = [op |-> "default_value", status |-> "ok",
             value |-> default_value(arg)]
  /\ UNCHANGED <<readerVars, token, arg>>

ArgNext ==
  \/ Construct
  \/ RealType
  \/ DefaultValue

ArgSpec == ArgInit /\ [][ArgNext]_vars

(***************************************************************************)
(* Properties of the codec runtime                                         *)
(***************************************************************************)
\* the first call on a fresh reader over serialize_bytes(payload)
FirstCallOnPayload(op) == kind = "payload" /\ nops = 1 /\ res.op = op

\* C1: a fresh BinaryReader over serialize_bytes(d) returns exactly d from
\* tgread_bytes() and ends with position equal to the buffer length.
C1_BytesRoundTrip ==
  FirstCallOnPayload("tgread_bytes") =>
    /\ res.status = "ok"
    /\ res.value = payload
    /\ position = Len(stream)

\* a payload of the 0xFE branch has made the round trip
C1_Witness ==
  /\ FirstCallOnPayload("tgread_bytes")
  /\ Len(payload) >= 254
  /\ res.status = "ok"
  /\ position = Len(wire)

\* C2: serialize_bytes writes [len][payload][zeros] with the total a multiple
\* of 4 when len < 254, and [0xFE][3-byte little-endian len][payload][zeros]
\* with payload + padding a multiple of 4 otherwise; the padding is 0..3 zero
\* bytes, and an empty payload yields four zero bytes.
C2_WireLayout ==
  (kind = "payload" /\ pc # "input") =>
    LET n == Len(payload)
        h == IF n < 254 THEN 1 ELSE 4
    IN /\ IF n < 254
          THEN wire[1] = n /\ Len(wire) % 4 = 0
          ELSE /\ wire[1] = 254
               /\ \A i \in 2..4 : wire[i] \in 0..255
               /\ wire[2] + 256 * wire[3] + 65536 * wire[4] = n
               /\ (Len(wire) - 4) % 4 = 0
       /\ SubSeq(wire, h + 1, h + n) = payload
       /\ Len(wire) - h - n \in 0..3
       /\ \A i \in (h + n + 1)..Len(wire) : wire[i] = 0
       /\ (n = 0 => wire = <<0, 0, 0, 0>>)

\* a payload that needs the third length byte has been serialized
C2_Witness ==
  /\ kind = "payload" /\ pc = "wire"
  /\ Len(payload) > 65535
  /\ wire[4] = 1

\* the bytes a fixed-width or counted read asks for
Needed ==
  CASE res.op = "read_byte" -> 1
    [] res.op = "read_int" -> 4
    [] res.op = "read_long" -> 8
    [] res.op = "read" -> res.param
    [] OTHER -> 0

\* a read ran with fewer bytes left than it needs
ShortOfData ==
  /\ res.op \in {"read_byte", "read_int", "read_long", "read"}
  /\ res.before \in 0..Len(stream)
  /\ Needed > Len(stream) - res.before

\* C3: a read that needs more bytes than remain fails with the out-of-data
\* error (the one read(length) raises) reporting the requested and the
\* available length; read_int() with 3 bytes left reports requested 4.
C3_OutOfDataError ==
  ShortOfData =>
    /\ res.status = "BufferError"
    /\ res.value.need = Needed
    /\ res.value.got = Len(stream) - res.before

\* the reserved IDs tgread_object interprets itself
Sentinels == {BoolTrueId, BoolFalseId, VectorId}

\* where in the buffer the last call began to read
StartIndex == IF res.before < 0 THEN res.before + Len(stream) ELSE res.before

\* the 4-byte ID the last call began at, if the buffer holds one there
HasIdAtStart == StartIndex >= 0 /\ StartIndex + 4 <= Len(stream)
IdAtStart ==
  << stream[StartIndex + 1] + 256 * stream[StartIndex + 2],
     stream[StartIndex + 3] + 256 * stream[StartIndex + 4] >>

\* tgread_object was called on an ID that nothing resolves
CalledOnUnknownId ==
  /\ res.op = "tgread_object"
  /\ HasIdAtStart
  /\ IdAtStart \notin registry \cup Sentinels

\* C4: tgread_object on an ID that is neither registered nor a sentinel fails
\* with the unknown-constructor error carrying that ID and the unread bytes,
\* and leaves the position where it was before the call.
C4_UnknownConstructor ==
  CalledOnUnknownId =>
    /\ res.status = "Exception"
    /\ res.value.id = IdAtStart
    /\ res.value.rest = SubSeq(stream, StartIndex + 1, Len(stream))
    /\ position = res.before

\* an unknown ID with bytes after it was met past the start of the buffer
C4_Witness ==
  /\ CalledOnUnknownId
  /\ res.status = "Exception"
  /\ res.before > 0
  /\ Len(res.value.rest) > 4

\* C5 as stated: no step of any reader operation, seek included, leaves the
\* position smaller than it was.
C5_PositionNeverDecreases == [][position' >= position]_vars

\* C5, amended: a step leaves the position smaller only when it is a seek
\* with a negative offset.
C5_DecreasesOnlyByNegativeSeek ==
  [][position' >= position \/ (res'.op = "seek" /\ res'.param < 0)]_vars

\* a failing tgread_object has rewound its ID and kept the position
C5_Witness ==
  /\ res.op = "tgread_object"
  /\ res.status = "Exception"
  /\ res.before > 0
  /\ position = res.before

\* C6: when read(length) fails for lack of data, tgread_bytes fails after its
\* length header, or tgread_bool fails on an invalid sentinel, the position
\* afterwards is the one before the call and does not exceed the buffer.
C6_FailureKeepsPosition ==
  (/\ res.op \in {"read", "tgread_bytes", "tgread_bool"}
   /\ res.status \in {"BufferError", "RuntimeError"}) =>
    /\ position = res.before
    /\ position <= Len(stream)

RECURSIVE HasObject(_)
\* whether v holds an instance of the registered class
HasObject(v) ==
  IF "vec" \in DOMAIN v
  THEN \E i \in 1..Len(v.vec) : HasObject(v.vec[i])
  ELSE "obj" \in DOMAIN v

\* the first call on a fresh reader over the encoding of a boxed vector whose
\* elements the registry and the fallbacks resolve
FirstCallOnVector ==
  /\ kind = "value" /\ nops = 1 /\ res.op = "tgread_object"
  /\ "vec" \in DOMAIN value
  /\ VectorId \notin registry
  /\ (HasObject(value) => ObjId \in registry)

\* C7: with the vector tag not registered, tgread_object on
\* [0x1cb5c415][count n][n boxed elements] returns the n decoded elements in
\* wire order and leaves the position right after the last one.
C7_BoxedVectorDecode ==
  FirstCallOnVector =>
    /\ res.status = "ok"
    /\ Len(res.value.vec) = Len(value.vec)
    /\ res.value = value
    /\ position = Len(stream)

\* a vector of two different elements, one of them a vector, was decoded
C7_Witness ==
  /\ FirstCallOnVector
  /\ res.status = "ok"
  /\ Len(value.vec) = 2
  /\ value.vec[1] # value.vec[2]
  /\ \E i \in 1..2 : "vec" \in DOMAIN value.vec[i]

\* the decoding calls that take whole 4-byte words
AlignedOps ==
  {"read_int", "read_long", "read_double", "tgread_bool", "tgread_bytes",
   "tgread_string"}

\* this step is a successful call of one of them
SuccessfulAlignedCall ==
  /\ nops' = nops + 1
  /\ res'.op \in AlignedOps
  /\ res'.status = "ok"

\* C11: every successful tgread_bytes (and read_int, read_long, read_double,
\* tgread_bool, tgread_string) call advances the position by a multiple of 4,
\* so from a position that is a multiple of 4, as that of a fresh reader and
\* of one that made only such calls is, a successful call leaves the position
\* a multiple of 4 and at most the buffer length.
C11_AlignmentPreserved ==
  [][SuccessfulAlignedCall =>
       /\ (position' - position) % 4 = 0
       /\ position' > position
       /\ (position >= 0 /\ position % 4 = 0) =>
            (position' % 4 = 0 /\ position' <= Len(stream'))]_vars

\* a string with one padding byte was decoded at position 4, after a call
\* that took the first word
C11_Witness ==
  /\ nops = 2
  /\ res.op = "tgread_string" /\ res.status = "ok"
  /\ res.before = 4
  /\ Len(res.value) = 2
  /\ position = 8
  /\ position <= Len(stream)

(***************************************************************************)
(* Properties of the argument model                                        *)
(***************************************************************************)
\* C8: real_type is the exact inverse of type-token parsing: for every token
\* of the grammar, TLArg(name, t, generic_definition).real_type() is t,
\* character for character.
C8_RealTypeInverse == out.op = "real_type" => out.value = token

IntTypes == {<<"i", "n", "t">>, <<"l", "o", "n", "g">>,
             <<"i", "n", "t", "6", "4">>, <<"i", "n", "t", "3", "2">>,
             <<"i", "n", "t", "5", "3">>}
ByteTypes == {<<"b", "y", "t", "e", "s">>, <<"i", "n", "t", "1", "2", "8">>,
              <<"i", "n", "t", "2", "5", "6">>}

\* the default the category table gives an unflagged, non-vector type
TableDefault(type) ==
  CASE type \in IntTypes -> "0"
    [] type \in ByteTypes -> "b''"
    [] type = <<"s", "t", "r", "i", "n", "g">> -> "''"
    [] type = <<"d", "o", "u", "b", "l", "e">> -> "0.0"
    [] type = <<"B", "o", "o", "l">> -> "False"
    [] type = <<"t", "r", "u", "e">> -> "True"
    [] OTHER -> "None"

\* C9: a flagged argument has default None whatever its type and whether or
\* not it is a vector; otherwise a vector has default []; otherwise the
\* default is the category table's, None for every type it does not list.
C9_DefaultValueTable ==
  out.op = "default_value" =>
    /\ (arg.flag # NoText => out.value = "None")
    /\ (arg.flag = NoText /\ arg.is_vector => out.value = "[]")
    /\ (arg.flag = NoText /\ ~arg.is_vector => out.value = TableDefault(arg.type))

\* the default of a flagged vector of bytes was asked for
C9_Witness ==
  /\ out.op = "default_value"
  /\ arg.flag # NoText
  /\ arg.is_vector
  /\ arg.type \in ByteTypes
  /\ out.value = "None"

\* C10: an argument with a flag has its flag_index in 0..31, and an argument
\* without a flag has flag_index -1.
C10_FlagIndexRange ==
  arg # NoArg =>
    IF arg.flag # NoText THEN arg.flag_index \in 0..31 ELSE arg.flag_index = -1


====
